---------------------------- MODULE Spec2Model ----------------------------
(***************************************************************************)
(* The editor lifecycle adapters of kie-tools: ServerlessWorkflowEditor    *)
(* (ServerlessWorkflowEditor.tsx) and DashbuilderEditor (part_002).  Each  *)
(* is a React function component that exposes the host contract           *)
(* setContent/getContent/getPreview/undo/redo/validate/setTheme through an *)
(* imperative handle, mounts a Monaco widget once a path is known, and     *)
(* turns the widget's onContentChange callbacks into host notifications.   *)
(*                                                                         *)
(* One behaviour of the model is the life of one component in its host;    *)
(* impl says which of the two components it is.  A step is one task of the *)
(* page: a render of the component with its commit, the passive effects of *)
(* a commit (React runs them later, in a task of their own), a call of the *)
(* host on the handle, an event of the widget, or a firing of the timer.   *)
(***************************************************************************)
EXTENDS Naturals, Sequences, FiniteSets, TLC

VARIABLES
  impl,             \* "Swf" | "Db": which component this behaviour is about
  props,            \* what the host passes: showEditor, and whether it
                    \* passes the optional onShowPreviewChange (Db)
  widgetShows,      \* which renders make the widget show its content prop
  mounted,          \* the component is mounted: its first commit has
                    \* attached the handle
  effects,          \* the passive effects of the last commit yet to run
  queue,            \* React state updates of initialContent not yet committed
  initialContent,   \* useState: [originalContent, path]
  diagramOutOfSync, \* useState (Swf)
  svgContainer,     \* useRef (Swf): the preview element, or a null ref
  widget,           \* the Monaco widget behind the ref (null ref = not mounted)
  newContentRef,    \* useRef (Db)
  oldContentRef,    \* useRef (Db)
  content,          \* useState (Db): what <Dashbuilder content=...> is given
  contentUpdate,    \* Db: the update of content not yet committed, if any
  showPreview,      \* useState (Db)
  showUpdate,       \* Db: the update of showPreview not yet committed, if any
  timers,           \* Db: the setInterval timers that are active
  timerContent,     \* Db: the content the timer's callback closes over
  out,              \* host notifications emitted by the last step, in order
                    \* (and, for a commit, the effect's content-change pass)
  last,             \* the last step: operation, outcome, returned value
  everSet,          \* history: setContent has been called at least once
  fresh,            \* history: the most recent setContent call and its stage
  snap,             \* history: what the host saw just before an applied undo,
                    \* or that the last call repeated the call before it
  \* the dev-webapp App (App.tsx), a component of its own
  swfTextEditorRef, \* useRef: the text editor widget, or a null ref
  editorRef,        \* useRef<EditorApi>: the host editor, or undefined
  reports,          \* onContentChange callbacks the widget has yet to deliver
  action,           \* history: the user action under way and what it caused
  \* EnvUtil.loadConfiguredPortableTypes (part_000)
  classpath,        \* what the scanner and the ErraiApp.properties files hold
  environmentConfig, \* the EnviromentConfig built from it, once it is built
  \* SWEditorEnvelopeApiImpl (part_001)
  envelopeEditor,   \* what view().getEditor() yields: an editor, or none
  editorCalls,      \* calls the last envelope method made on the editor
  channelSent,      \* channel notifications the last envelope method sent
  envelopeLast,     \* the last envelope method: name, arguments, result
  \* EnvUtil.isJUnitTest / isDevMode / isProdMode (part_000)
  flagCache,        \* the static volatile fields _isJUnitTest, _isDevMode,
                    \* _isProdMode, by method name
  threads,          \* each thread: its call stack kind and its frames
  returnedSoFar,    \* history: per method, the values calls have returned
  \* EnvUtil.getEnvironmentConfig / isPortableType (part_000)
  environmentConfigCache, \* the static field _environmentConfigCache
  cacheWrites,      \* every value the field has held (null to begin with)
  callers,          \* each thread: the method it is in and where
  loadRuns,         \* history: runs of loadConfiguredPortableTypes
  received          \* history: what getEnvironmentConfig has returned

\* what only a render, the effects and the timer touch
reactVars ==
  <<props, widgetShows, effects, contentUpdate, showPreview, showUpdate,
    timerContent>>

editorVars ==
  <<impl, mounted, queue, initialContent, diagramOutOfSync, svgContainer, widget,
    newContentRef, oldContentRef, content, timers, out, last, everSet, fresh,
    snap, reactVars>>

appVars == <<swfTextEditorRef, editorRef, reports, action>>

portableVars == <<classpath, environmentConfig>>

\* what the editor adapters leave alone
envelopeVars == <<envelopeEditor, editorCalls, channelSent, envelopeLast>>

flagVars == <<flagCache, threads, returnedSoFar>>

cacheVars ==
  <<environmentConfigCache, cacheWrites, callers, loadRuns, received>>

others == <<appVars, portableVars, envelopeVars, flagVars, cacheVars>>

vars == <<editorVars, others>>

-----------------------------------------------------------------------------
(* Bounds *)

MaxQueue == 1      \* setContent calls that may pile up before React commits
MaxHistory == 1    \* depth of the widget's undo history
MaxFiles == 2      \* EnvUtil: ErraiApp.properties files on the class path
MaxKeys == 2       \* EnvUtil: keys in one ErraiApp.properties file
MaxEdits == 4      \* App: edits the text editor's history may hold

-----------------------------------------------------------------------------
(* Inputs.  Content is opaque text to the adapters; the only thing the code *)
(* asks of it is whether the workflow SDK parses it and whether the parsed  *)
(* workflow has states.                                                     *)

INITIAL_CONTENT == "INITIAL_CONTENT"

UPDATE_TIME == 1000

Contents == {"", "{bad", "wf-hello"}

Paths == {"", "a.sw.json"}

\* the (path, content) pairs the host passes to setContent: an empty path
\* (no widget is mounted for it) and a workflow path with a text that does
\* not parse and one that does
SetContentArgs ==
  {<<"", "">>} \cup {<<p, c>> : p \in Paths \ {""}, c \in Contents \ {""}}

\* DashbuilderEditor stores, compares and passes content on and never looks
\* into it: one text stands for what the host passes and the user types
DbSetContentArgs == {<<"", "">>} \cup {<<p, "wf-hello">> : p \in Paths \ {""}}

DbEdits == {"wf-hello"}

Themes == {"LIGHT", "DARK"}

Impls == {"Swf", "Db"}

\* Specification.Workflow.fromSource(newContent) returns (does not throw).
\* "{bad" stands for text that is neither JSON nor YAML of a workflow.
Parses(c) == c = "wf-hello"

\* workflow.states ? new MermaidDiagram(workflow).sourceCode() : ""
MermaidSourceCode(c) == IF c = "wf-hello" THEN "graph" ELSE ""

\* svgContainer = useRef(null); no element of the JSX is given the ref
NullRef == [attached |-> FALSE, innerHTML |-> ""]

\* mermaid.init renders the source code to an <svg> inside the container
MermaidSvg(src) == "<svg>" \o src \o "</svg>"

PLACEHOLDER == "Create a workflow to see its preview here."

-----------------------------------------------------------------------------
(* The Monaco widget (SwfMonacoEditor / DashbuilderMonacoEditor): it holds *)
(* the content it was given, keeps a native undo/redo history, and reports *)
(* each applied change through onContentChange(content, operation).        *)

NoWidget == [mounted |-> FALSE, content |-> "", undo |-> <<>>, redo |-> <<>>,
             theme |-> "LIGHT"]

WidgetShow(w, c) ==
  [mounted |-> TRUE, content |-> c, undo |-> <<>>, redo |-> <<>>,
   theme |-> w.theme]

WidgetApplyEdit(w, c) ==
  [w EXCEPT !.content = c, !.undo = Append(w.undo, w.content), !.redo = <<>>]

WidgetCanUndo(w) == w.mounted /\ w.undo # <<>>

WidgetCanRedo(w) == w.mounted /\ w.redo # <<>>

WidgetUndo(w) ==
  IF WidgetCanUndo(w)
  THEN [w EXCEPT !.content = w.undo[Len(w.undo)],
                 !.undo = SubSeq(w.undo, 1, Len(w.undo) - 1),
                 !.redo = Append(w.redo, w.content)]
  ELSE w

WidgetRedo(w) ==
  IF WidgetCanRedo(w)
  THEN [w EXCEPT !.content = w.redo[Len(w.redo)],
                 !.redo = SubSeq(w.redo, 1, Len(w.redo) - 1),
                 !.undo = Append(w.undo, w.content)]
  ELSE w

WidgetSetTheme(w, t) == IF w.mounted THEN [w EXCEPT !.theme = t] ELSE w

(* The widget element is given the same props at every render: content,   *)
(* fileName and onContentChange.  Which renders make the widget show the   *)
(* content prop anew (dropping what the user typed and its undo history)   *)
(* is the widget's business: at every render ("always"), when one of the   *)
(* three props differs from the render before ("deps"; onContentChange is  *)
(* a new function whenever the parent renders), or when content or         *)
(* fileName differ ("props").                                              *)
WidgetKinds == {"props", "deps", "always"}

WidgetTakesContent(kind, old, ic, parentRenders) ==
  \/ kind = "always"
  \/ ic.originalContent # old.originalContent \/ ic.path # old.path
  \/ kind = "deps" /\ parentRenders

-----------------------------------------------------------------------------
(* Host notifications *)

Ready == [kind |-> "onReady", arg |-> ""]
NewEdit(c) == [kind |-> "onNewEdit", arg |-> c]
StateControl(cmd) == [kind |-> "onStateControlCommandUpdate", arg |-> cmd]

Operations == {"EDIT", "UNDO", "REDO", "NONE"}   \* NONE: operation undefined

\* ServerlessWorkflowEditor.onContentChanged: the notifications it sends
SwfOnContentChangedEmits(newContent, operation) ==
  IF operation = "EDIT" THEN <<NewEdit(newContent)>>
  ELSE IF operation = "UNDO" THEN <<StateControl("UNDO")>>
  ELSE IF operation = "REDO" THEN <<StateControl("REDO")>>
  ELSE <<>>

\* faulty variant: the two state-control commands are swapped
DbOnContentChangedEmitsSwapped(newContent, operation) ==
  IF operation = "EDIT" THEN <<NewEdit(newContent)>>
  ELSE IF operation = "UNDO" THEN <<StateControl("REDO")>>
  ELSE IF operation = "REDO" THEN <<StateControl("UNDO")>>
  ELSE <<>>

\* DashbuilderEditor.onContentChanged: the notifications it sends
DbOnContentChangedEmits(newContent, operation) ==
  IF operation = "EDIT" THEN <<NewEdit(newContent)>>
  ELSE IF operation = "UNDO" THEN <<StateControl("UNDO")>>
  ELSE IF operation = "REDO" THEN <<StateControl("REDO")>>
  ELSE <<>>

\* faulty variant: the body of onContentChanged without its try/catch
SwfOnContentChangedOutcomeUncaught(svg, newContent) ==
  IF ~Parses(newContent) \/ ~svg.attached THEN "threw" ELSE "returned"

\* Swf onContentChanged: fromSource and the writes through the null ref
\* throw inside the try, the catch logs and marks the diagram out of sync
SwfOnContentChangedOutcome(svg, newContent) == "returned"

\* Swf onContentChanged, the try/catch: what diagramOutOfSync is set to.
\* fromSource throws on unparsable text, and svgContainer.current!.innerHTML
\* throws a TypeError on a null ref; both end in the catch.
DiagramOutOfSyncAfter(svg, newContent) ==
  IF ~Parses(newContent) THEN TRUE
  ELSE IF ~svg.attached THEN TRUE
  ELSE IF MermaidSourceCode(newContent) # "" THEN FALSE
  ELSE TRUE

\* Swf onContentChanged, the try/catch: what the preview element holds after
SvgContainerAfter(svg, newContent) ==
  IF ~Parses(newContent) \/ ~svg.attached THEN svg
  ELSE IF MermaidSourceCode(newContent) # ""
       THEN [svg EXCEPT !.innerHTML = MermaidSvg(MermaidSourceCode(newContent))]
       ELSE [svg EXCEPT !.innerHTML = PLACEHOLDER]

-----------------------------------------------------------------------------
(* The imperative handle: what each method stores and returns *)

\* faulty variant: the caller's content is replaced by a constant
SwfStoredContentConstant(path, newContent) ==
  [originalContent |-> "", path |-> path]

\* Swf setContent: the value handed to setInitialContent
SwfStoredContent(path, newContent) ==
  [originalContent |-> newContent, path |-> path]

\* Db setContent: the value handed to setInitialContent
DbStoredContent(path, newContent) ==
  [originalContent |-> INITIAL_CONTENT, path |-> path]

\* Both setContent: setInitialContent does not throw, the catch is never taken
SetContentOutcome(path, newContent) == "resolved"

\* Swf getContent: Promise.resolve(swfMonacoEditorRef.current?.getContent() || "")
SwfGetContentResult(w) ==
  [outcome |-> "resolved",
   value |-> IF w.mounted /\ w.content # "" THEN w.content ELSE ""]

\* Db getContent: the widget's content goes into a promise that is dropped,
\* and Promise.resolve("") is what is returned
DbGetContentResult(w) == [outcome |-> "resolved", value |-> ""]

\* String.prototype.replaceAll(from, to) for a non-empty from: every
\* occurrence of from, left to right and without overlap, becomes to
RECURSIVE ReplaceAll(_, _, _)
ReplaceAll(s, from, to) ==
  IF Len(s) < Len(from) THEN s
  ELSE IF SubSeq(s, 1, Len(from)) = from
  THEN to \o ReplaceAll(SubSeq(s, Len(from) + 1, Len(s)), from, to)
  ELSE SubSeq(s, 1, 1) \o ReplaceAll(SubSeq(s, 2, Len(s)), from, to)

\* Swf getPreview: svgContainer.current!.innerHTML on a null ref is a
\* TypeError; with an element, innerHTML.replaceAll("<br>", "<br/>")
SwfGetPreviewResult(svg) ==
  IF svg.attached
  THEN [outcome |-> "resolved",
        value |-> ReplaceAll(svg.innerHTML, "<br>", "<br/>")]
  ELSE [outcome |-> "threw", value |-> ""]

\* Db getPreview
DbGetPreviewResult == [outcome |-> "resolved", value |-> ""]

GetContentResult(w) ==
  IF impl = "Swf" THEN SwfGetContentResult(w) ELSE DbGetContentResult(w)

-----------------------------------------------------------------------------
(* History variables *)

NoFresh == [stage |-> "none", path |-> "", content |-> "", shown |-> FALSE]
NoSnap == [stage |-> "none", got |-> "", wc |-> "", newRef |-> ""]

Did(op, outcome, value, applied) ==
  [op |-> op, outcome |-> outcome, value |-> value, applied |-> applied]

-----------------------------------------------------------------------------
(* EnvUtil.loadConfiguredPortableTypes (part_000).  A pure function of     *)
(* what the class scanner finds and of the ErraiApp.properties files on    *)
(* the class path; it is applied to every input below.                     *)

CONFIG_ERRAI_SERIALIZABLE_TYPE == "errai.marshalling.serializableTypes"
CONFIG_ERRAI_NONSERIALIZABLE_TYPE == "errai.marshalling.nonserializableTypes"
CONFIG_ERRAI_MAPPING_ALIASES == "errai.marshalling.mappingAliases"

\* the keys a properties file may hold; the last one is of no interest here
PropertyKeys ==
  {CONFIG_ERRAI_SERIALIZABLE_TYPE, CONFIG_ERRAI_NONSERIALIZABLE_TYPE,
   CONFIG_ERRAI_MAPPING_ALIASES, "errai.other"}

\* the classes of the inputs:
\*   class Outer implements OuterIface { class Inner implements Marker;
\*                                       synthetic class Synth }
\*   class Plain extends Base;  class Base implements BaseIface
\*   interface Marker extends SuperMarker
DeclaredClasses(c) == IF c = "Outer" THEN {"Inner", "Synth"} ELSE {}

IsSynthetic(c) == c = "Synth"

Interfaces(c) ==
  CASE c = "Outer" -> {"OuterIface"}
    [] c = "Inner" -> {"Marker"}
    [] c = "Base" -> {"BaseIface"}
    [] c = "Marker" -> {"SuperMarker"}
    [] OTHER -> {}

NoClass == "null"

SuperClass(c) == IF c = "Plain" THEN "Base" ELSE NoClass

\* props.getString(key).split(" "): the class names a key lists
PropertyTypes(key) ==
  CASE key = CONFIG_ERRAI_SERIALIZABLE_TYPE -> <<"Plain", "Inner">>
    [] key = CONFIG_ERRAI_NONSERIALIZABLE_TYPE -> <<"Plain", "Outer">>
    [] OTHER -> <<>>

\* props.getString(CONFIG_ERRAI_MAPPING_ALIASES): from->to pairs
PropertyAliases(key) ==
  IF key = CONFIG_ERRAI_MAPPING_ALIASES THEN {<<"Plain", "Base">>} ELSE {}

Range(seq) == {seq[i] : i \in DOMAIN seq}

\* sequences over S of length at most n
RECURSIVE SeqsUpTo(_, _)
SeqsUpTo(S, n) ==
  IF n = 0 THEN {<<>>}
  ELSE LET shorter == SeqsUpTo(S, n - 1) IN
         shorter \cup {Append(q, x) : q \in shorter, x \in S}

\* those of them that repeat no element
DistinctSeqs(S, n) ==
  {q \in SeqsUpTo(S, n) : \A i, j \in DOMAIN q : i # j => q[i] # q[j]}

\* a properties file is its keys, in the order props.keySet() yields them
PropertyFiles == DistinctSeqs(PropertyKeys, MaxKeys)

Classpaths ==
  [portable : SUBSET {"Outer", "Plain"},
   nonPortable : SUBSET {"Inner", "Plain"},
   files : SeqsUpTo(PropertyFiles, MaxFiles)]

\* lines 139-190: the keys of one file, read until the first of the three
\* configuration keys, whose branch ends with break
RECURSIVE ReadKeys(_, _)
ReadKeys(keys, acc) ==
  IF keys = <<>> THEN acc
  ELSE LET key == Head(keys)
           put == [acc EXCEPT !.frameworkProps = @ \cup {key}]
       IN IF key = CONFIG_ERRAI_SERIALIZABLE_TYPE
          THEN [put EXCEPT !.exposedClasses = @ \cup Range(PropertyTypes(key))]
          ELSE IF key = CONFIG_ERRAI_NONSERIALIZABLE_TYPE
          THEN [put EXCEPT !.nonportableClasses = @ \cup Range(PropertyTypes(key))]
          ELSE IF key = CONFIG_ERRAI_MAPPING_ALIASES
          THEN [put EXCEPT !.mappingAliases = @ \cup PropertyAliases(key)]
          ELSE ReadKeys(Tail(keys), put)

\* lines 128-206: every ErraiApp.properties file in turn
RECURSIVE ReadFiles(_, _)
ReadFiles(files, acc) ==
  IF files = <<>> THEN acc
  ELSE ReadFiles(Tail(files), ReadKeys(Head(files), acc))

\* fillInInterfacesAndSuperTypes: the interfaces of the type, of its
\* interfaces and of its superclasses (the superclasses themselves are not
\* added)
RECURSIVE InterfacesAndSuperTypes(_)
InterfacesAndSuperTypes(type) ==
  Interfaces(type)
    \cup UNION {InterfacesAndSuperTypes(iface) : iface \in Interfaces(type)}
    \cup (IF SuperClass(type) # NoClass
          THEN InterfacesAndSuperTypes(SuperClass(type)) ELSE {})

\* lines 101-114: the sets before the properties files are read
ScannedClasses(cp) ==
  [exposedClasses |->
     {decl \in UNION {DeclaredClasses(cls) : cls \in cp.portable} :
        ~IsSynthetic(decl)} \cup cp.portable,
   nonportableClasses |-> cp.nonPortable,
   mappingAliases |-> {},
   frameworkProps |-> {}]

LoadConfiguredPortableTypes(cp) ==
  LET read == ReadFiles(cp.files, ScannedClasses(cp))
      exposed == read.exposedClasses \ read.nonportableClasses
  IN [loaded |-> TRUE,
      mappingAliases |-> read.mappingAliases,
      exposedClasses |-> exposed,
      portableNonExposed |-> UNION {InterfacesAndSuperTypes(cls) : cls \in exposed},
      frameworkProps |-> read.frameworkProps]

NoConfig ==
  [loaded |-> FALSE, mappingAliases |-> {}, exposedClasses |-> {},
   portableNonExposed |-> {}, frameworkProps |-> {}]

NoClasspath == [portable |-> {}, nonPortable |-> {}, files |-> <<>>]

PortableIdle == classpath = NoClasspath /\ environmentConfig = NoConfig

LoadPortableTypes ==
  /\ ~environmentConfig.loaded
  /\ environmentConfig' = LoadConfiguredPortableTypes(classpath)
  /\ UNCHANGED <<classpath, editorVars, appVars, envelopeVars, flagVars, cacheVars>>

PortableNext == LoadPortableTypes

-----------------------------------------------------------------------------
(* SWEditorEnvelopeApiImpl (part_001): the envelope methods, each of which *)
(* asks the view for the editor and hands the call over to it.  The editor *)
(* is seen from outside: the calls it receives and what it returns.        *)

NoEditor == "none"

\* an editor whose mySWMethod returns a string, and one whose mySWMethod
\* returns undefined
EnvelopeEditors == {NoEditor, "editor", "editorWithoutAnswer"}

Uuids == {"node-1", "node-2", "node-3"}
Colors == {"red", "blue", "#fff"}
States == {"highlight", "select", "none"}

EditorNotFound == "Editor not found."
SW_SPECIFIC_DEFAULT == "sw-specific--default"
Undefined == "undefined"

EditorCall(method, args) == [method |-> method, args |-> args]

\* what the editor answers to a call
EditorReturn(e, method, args) ==
  IF method = "mySWMethod"
  THEN (IF e = "editor" THEN "sw-specific--configured" ELSE Undefined)
  ELSE <<"result", method, args>>

\* faulty variant: the call goes to whatever getEditor() yielded
CanvasCallUnguarded(e, method, args) ==
  [outcome |-> "resolved", value |-> EditorReturn(e, method, args),
   calls |-> <<EditorCall(method, args)>>, sent |-> <<>>]

\* the body every canvas_* method shares: if (!editor) throw new
\* Error("Editor not found."); return editor.method(args).  The methods are
\* async, so the throw is a rejected promise.
CanvasCall(e, method, args) ==
  IF e = NoEditor
  THEN [outcome |-> "rejected", value |-> EditorNotFound, calls |-> <<>>,
        sent |-> <<>>]
  ELSE [outcome |-> "resolved", value |-> EditorReturn(e, method, args),
        calls |-> <<EditorCall(method, args)>>, sent |-> <<>>]

\* mySWEnvelopeMethod: send the notification, then
\* editor?.mySWMethod() ?? "sw-specific--default"
MySWEnvelopeMethodCall(e) ==
  LET ret == IF e = NoEditor THEN Undefined
             ELSE EditorReturn(e, "mySWMethod", <<>>)
  IN [outcome |-> "resolved",
      value |-> IF ret = Undefined THEN SW_SPECIFIC_DEFAULT ELSE ret,
      calls |-> IF e = NoEditor THEN <<>> ELSE <<EditorCall("mySWMethod", <<>>)>>,
      sent |-> <<"mySWChannelMethod">>]

NoEnvelopeCall ==
  [op |-> "none", args |-> <<>>, outcome |-> "none", value |-> ""]

EnvelopeIdle ==
  /\ envelopeEditor = NoEditor
  /\ editorCalls = <<>>
  /\ channelSent = <<>>
  /\ envelopeLast = NoEnvelopeCall

\* one envelope method called with args, r being what its body does
EnvelopeStep(op, args, r) ==
  /\ editorCalls' = r.calls
  /\ channelSent' = r.sent
  /\ envelopeLast' = [op |-> op, args |-> args, outcome |-> r.outcome,
                      value |-> r.value]
  /\ UNCHANGED <<envelopeEditor, editorVars, appVars, portableVars, flagVars, cacheVars>>

mySWEnvelopeMethod ==
  EnvelopeStep("mySWEnvelopeMethod", <<>>, MySWEnvelopeMethodCall(envelopeEditor))

canvas_getNodeIds ==
  EnvelopeStep("canvas_getNodeIds", <<>>,
               CanvasCall(envelopeEditor, "getNodeIds", <<>>))

canvas_getBackgroundColor(uuid) ==
  EnvelopeStep("canvas_getBackgroundColor", <<uuid>>,
               CanvasCall(envelopeEditor, "getBackgroundColor", <<uuid>>))

canvas_setBackgroundColor(uuid, backgroundColor) ==
  EnvelopeStep("canvas_setBackgroundColor", <<uuid, backgroundColor>>,
               CanvasCall(envelopeEditor, "setBackgroundColor", <<uuid, backgroundColor>>))

canvas_getBorderColor(uuid) ==
  EnvelopeStep("canvas_getBorderColor", <<uuid>>,
               CanvasCall(envelopeEditor, "getBorderColor", <<uuid>>))

canvas_setBorderColor(uuid, borderColor) ==
  EnvelopeStep("canvas_setBorderColor", <<uuid, borderColor>>,
               CanvasCall(envelopeEditor, "setBorderColor", <<uuid, borderColor>>))

canvas_getLocation(uuid) ==
  EnvelopeStep("canvas_getLocation", <<uuid>>,
               CanvasCall(envelopeEditor, "getLocation", <<uuid>>))

canvas_getAbsoluteLocation(uuid) ==
  EnvelopeStep("canvas_getAbsoluteLocation", <<uuid>>,
               CanvasCall(envelopeEditor, "getAbsoluteLocation", <<uuid>>))

canvas_getDimensions(uuid) ==
  EnvelopeStep("canvas_getDimensions", <<uuid>>,
               CanvasCall(envelopeEditor, "getDimensions", <<uuid>>))

canvas_applyState(uuid, state) ==
  EnvelopeStep("canvas_applyState", <<uuid, state>>,
               CanvasCall(envelopeEditor, "applyState", <<uuid, state>>))

canvas_centerNode(uuid) ==
  EnvelopeStep("canvas_centerNode", <<uuid>>,
               CanvasCall(envelopeEditor, "centerNode", <<uuid>>))

EnvelopeNext ==
  \/ mySWEnvelopeMethod
  \/ canvas_getNodeIds
  \/ \E uuid \in Uuids : canvas_getBackgroundColor(uuid)
  \/ \E uuid \in Uuids, v \in Colors : canvas_setBackgroundColor(uuid, v)
  \/ \E uuid \in Uuids : canvas_getBorderColor(uuid)
  \/ \E uuid \in Uuids, v \in Colors : canvas_setBorderColor(uuid, v)
  \/ \E uuid \in Uuids : canvas_getLocation(uuid)
  \/ \E uuid \in Uuids : canvas_getAbsoluteLocation(uuid)
  \/ \E uuid \in Uuids : canvas_getDimensions(uuid)
  \/ \E uuid \in Uuids, v \in States : canvas_applyState(uuid, v)
  \/ \E uuid \in Uuids : canvas_centerNode(uuid)

-----------------------------------------------------------------------------
(* EnvUtil.isJUnitTest / isDevMode / isProdMode (part_000): static methods *)
(* that any thread may call, directly or through recordEnvironmentState.   *)
(* Each caches its answer in a volatile field without a lock, so a step of *)
(* a thread is one access to such a field.                                 *)

Threads == {"t1", "t2"}

FlagMethods == {"isJUnitTest", "isDevMode", "isProdMode"}

\* the public methods a thread may enter
FlagEntries == FlagMethods \cup {"recordEnvironmentState"}

Null == "null"

\* what new Throwable().getStackTrace() of a thread holds: frames of
\* org.junit, the frame of OophmSessionHandler, or neither
StackKinds == {"junit", "oophm", "plain"}

\* the scan of the stack trace in isJUnitTest and in isDevMode
StackScan(kind, m) ==
  IF m = "isJUnitTest"
  THEN (IF kind = "junit" THEN "TRUE" ELSE "FALSE")
  ELSE (IF kind = "oophm" THEN "TRUE" ELSE "FALSE")

Frame(m) == [m |-> m, pc |-> "check", val |-> Null]

IdleThread(kind) == [kind |-> kind, frames |-> <<>>, seen |-> {}, result |-> Null]

FlagsIdle ==
  /\ flagCache = [m \in FlagMethods |-> Null]
  /\ threads = [t \in Threads |-> IdleThread("plain")]
  /\ returnedSoFar = [m \in FlagMethods |-> {}]

TopFrame(th) == th.frames[Len(th.frames)]

SetTop(th, f) == [th EXCEPT !.frames[Len(th.frames)] = f]

\* isProdMode: !isDevMode() && !isJUnitTest(), with v the value the inner
\* call returned to the frame f of isProdMode
ProdModeContinues(f, v) ==
  IF f.pc = "inDevMode"
  THEN (IF v = "TRUE"
        THEN <<[f EXCEPT !.pc = "store", !.val = "FALSE"]>>
        ELSE <<[f EXCEPT !.pc = "inJUnitTest"], Frame("isJUnitTest")>>)
  ELSE <<[f EXCEPT !.pc = "store",
                   !.val = IF v = "TRUE" THEN "FALSE" ELSE "TRUE"]>>

\* recordEnvironmentState: isJUnitTest(); isDevMode(); isProdMode(); with
\* the inner call of the frame f returned (its value is dropped)
RecordContinues(f, v) ==
  IF f.pc = "inJUnitTest"
  THEN <<[f EXCEPT !.pc = "inDevMode"], Frame("isDevMode")>>
  ELSE IF f.pc = "inDevMode"
  THEN <<[f EXCEPT !.pc = "inProdMode"], Frame("isProdMode")>>
  ELSE <<>>

\* the frames of a thread once its top frame has returned v to the frame
\* below it
FramesAfterReturn(frames, v) ==
  LET n == Len(frames)
      caller == frames[n - 1]
  IN SubSeq(frames, 1, n - 2)
       \o (IF caller.m = "isProdMode" THEN ProdModeContinues(caller, v)
           ELSE RecordContinues(caller, v))

\* the top frame returns v: to the host of the thread, to isProdMode, or to
\* recordEnvironmentState, which returns nothing to the host after its
\* last call
ThreadAfterReturn(th, v) ==
  IF Len(th.frames) = 1
  THEN [th EXCEPT !.frames = <<>>, !.result = v]
  ELSE IF FramesAfterReturn(th.frames, v) = <<>>
  THEN [th EXCEPT !.frames = <<>>, !.result = "void"]
  ELSE [th EXCEPT !.frames = FramesAfterReturn(th.frames, v)]

ReturnedAfter(th, v) ==
  IF Len(th.frames) = 1
  THEN [returnedSoFar EXCEPT ![TopFrame(th).m] = @ \cup {v}]
  ELSE returnedSoFar

\* the frames of a call of m by the host: recordEnvironmentState is in its
\* first inner call at once
EntryFrames(m) ==
  IF m = "recordEnvironmentState"
  THEN <<[m |-> m, pc |-> "inJUnitTest", val |-> Null], Frame("isJUnitTest")>>
  ELSE <<Frame(m)>>

\* a thread calls one of the public methods
FlagCall(t, m) ==
  /\ threads[t].frames = <<>>
  /\ threads' = [threads EXCEPT ![t] =
                   [threads[t] EXCEPT !.frames = EntryFrames(m),
                                      !.seen = IF m \in FlagMethods
                                               THEN returnedSoFar[m] ELSE {},
                                      !.result = Null]]
  /\ UNCHANGED <<flagCache, returnedSoFar, editorVars, appVars, portableVars,
                 envelopeVars, cacheVars>>

\* if (_flag != null): the first read of the field
FlagCheck(t) ==
  /\ threads[t].frames # <<>> /\ TopFrame(threads[t]).pc = "check"
  /\ LET f == TopFrame(threads[t])
     IN threads' = [threads EXCEPT ![t] =
                      SetTop(threads[t],
                             [f EXCEPT !.pc = IF flagCache[f.m] # Null
                                              THEN "cached" ELSE "miss"])]
  /\ UNCHANGED <<flagCache, returnedSoFar, editorVars, appVars, portableVars,
                 envelopeVars, cacheVars>>

\* return _flag: the second read of the field
FlagReturnCached(t) ==
  /\ threads[t].frames # <<>> /\ TopFrame(threads[t]).pc = "cached"
  /\ threads' = [threads EXCEPT ![t] =
                   ThreadAfterReturn(threads[t],
                                     flagCache[TopFrame(threads[t]).m])]
  /\ returnedSoFar' = ReturnedAfter(threads[t], flagCache[TopFrame(threads[t]).m])
  /\ UNCHANGED <<flagCache, editorVars, appVars, portableVars, envelopeVars, cacheVars>>

\* isJUnitTest / isDevMode: scan the own stack trace, return _flag = value
FlagScanAndStore(t) ==
  /\ threads[t].frames # <<>> /\ TopFrame(threads[t]).pc = "miss"
  /\ TopFrame(threads[t]).m # "isProdMode"
  /\ LET m == TopFrame(threads[t]).m
         v == StackScan(threads[t].kind, m)
     IN /\ flagCache' = [flagCache EXCEPT ![m] = v]
        /\ threads' = [threads EXCEPT ![t] = ThreadAfterReturn(threads[t], v)]
        /\ returnedSoFar' = ReturnedAfter(threads[t], v)
  /\ UNCHANGED <<editorVars, appVars, portableVars, envelopeVars, cacheVars>>

\* isProdMode: the call of isDevMode()
FlagProdCallsDev(t) ==
  /\ threads[t].frames # <<>> /\ TopFrame(threads[t]).pc = "miss"
  /\ TopFrame(threads[t]).m = "isProdMode"
  /\ threads' = [threads EXCEPT ![t] =
                   [threads[t] EXCEPT !.frames =
                      SubSeq(threads[t].frames, 1, Len(threads[t].frames) - 1)
                        \o <<[TopFrame(threads[t]) EXCEPT !.pc = "inDevMode"],
                             Frame("isDevMode")>>]]
  /\ UNCHANGED <<flagCache, returnedSoFar, editorVars, appVars, portableVars,
                 envelopeVars, cacheVars>>

\* isProdMode: return _isProdMode = Boolean.valueOf(...)
FlagProdStore(t) ==
  /\ threads[t].frames # <<>> /\ TopFrame(threads[t]).pc = "store"
  /\ LET v == TopFrame(threads[t]).val
     IN /\ flagCache' = [flagCache EXCEPT !["isProdMode"] = v]
        /\ threads' = [threads EXCEPT ![t] = ThreadAfterReturn(threads[t], v)]
        /\ returnedSoFar' = ReturnedAfter(threads[t], v)
  /\ UNCHANGED <<editorVars, appVars, portableVars, envelopeVars, cacheVars>>

FlagsNext ==
  \/ \E t \in Threads, m \in FlagEntries : FlagCall(t, m)
  \/ \E t \in Threads : FlagCheck(t)
  \/ \E t \in Threads : FlagReturnCached(t)
  \/ \E t \in Threads : FlagScanAndStore(t)
  \/ \E t \in Threads : FlagProdCallsDev(t)
  \/ \E t \in Threads : FlagProdStore(t)

-----------------------------------------------------------------------------
(* EnvUtil.getEnvironmentConfig and its callers isPortableType,            *)
(* getAllPortableConcreteSubtypes and getAllPortableSubtypes (part_000).   *)
(* _environmentConfigCache is a plain static field, neither volatile nor   *)
(* guarded by a lock.  An EnviromentConfig instance is named after the     *)
(* thread whose run of loadConfiguredPortableTypes created it; what it     *)
(* holds is LoadConfiguredPortableTypes(classpath).                        *)

CacheMethods ==
  {"getEnvironmentConfig", "isPortableType", "getAllPortableConcreteSubtypes",
   "getAllPortableSubtypes"}

\* the two methods that ask isPortableType about a class and its subtypes
SubtypeMethods == {"getAllPortableConcreteSubtypes", "getAllPortableSubtypes"}

\* the classes isPortableType is asked about
AskedClasses == {"Outer", "Inner", "Marker", "Base", "String", "Integer"}

\* the classes the two subtype methods are asked about
SubtypeRoots == {"Base", "Marker"}

\* String.class.equals(cls) || TypeHandlerFactory.getHandler(cls) != null
HasTypeHandler(cls) == cls \in {"String", "Integer"}

IsInterface(cls) == cls \in {"OuterIface", "Marker", "BaseIface", "SuperMarker"}

\* ScannerSingleton.getOrCreateInstance().getSubTypesOf(clazz), in the order
\* the loop visits them
SubTypesOf(clazz) ==
  CASE clazz = "Base" -> <<"Plain">>
    [] clazz = "Marker" -> <<"Inner">>
    [] clazz = "SuperMarker" -> <<"Marker", "Inner">>
    [] clazz = "BaseIface" -> <<"Base", "Plain">>
    [] clazz = "OuterIface" -> <<"Outer">>
    [] OTHER -> <<>>

\* the scanner's @Portable classes vary, the properties files are left out
CacheClasspaths ==
  {cp \in Classpaths : cp.files = <<>> /\ cp.nonPortable = {}}

IdleCaller ==
  [op |-> "none", cls |-> Null, pc |-> "idle", call |-> 0, wrote |-> FALSE,
   outcome |-> "none", result |-> Null, todo |-> <<>>, acc |-> {}]

CacheIdle ==
  /\ environmentConfigCache = Null
  /\ cacheWrites = {Null}
  /\ callers = [t \in Threads |-> IdleCaller]
  /\ loadRuns = 0
  /\ received = {}

(* A read of the field races with the writes of other threads: it yields   *)
(* the value last written or any value written before that the reading     *)
(* thread is not ordered after.  A thread's own write comes before its      *)
(* later reads, so after it null is no longer among them.                   *)
VisibleValues(c) == IF c.wrote THEN cacheWrites \ {Null} ELSE cacheWrites

\* isPortableType after getEnvironmentConfig() has returned r to it:
\*   cls.isAnnotationPresent(Portable.class)
\*     || getEnvironmentConfig().getExposedClasses().contains(mc)
\*     || getEnvironmentConfig().getPortableSuperTypes().contains(mc)
\* and the else branch: String, or a class with a type handler
IsPortableTypeContinues(c, r, cp) ==
  IF r = Null
  THEN [c EXCEPT !.pc = "idle", !.outcome = "threw",
                 !.result = "NullPointerException"]
  ELSE IF c.call = 1
  THEN (IF c.cls \in LoadConfiguredPortableTypes(cp).exposedClasses
        THEN [c EXCEPT !.pc = "idle", !.outcome = "returned", !.result = "TRUE"]
        ELSE [c EXCEPT !.pc = "check", !.call = 2])
  ELSE [c EXCEPT !.pc = "idle", !.outcome = "returned",
                 !.result =
                   IF c.cls \in LoadConfiguredPortableTypes(cp).portableNonExposed
                   THEN "TRUE"
                   ELSE IF HasTypeHandler(c.cls) THEN "TRUE" ELSE "FALSE"]

\* the loops of the two subtype methods: the next class of todo is asked
\* about.  An annotated class is answered without getEnvironmentConfig();
\* when no class is left the method returns the set it has collected.
RECURSIVE SubtypesContinue(_, _)
SubtypesContinue(c, cp) ==
  IF c.todo = <<>>
  THEN [c EXCEPT !.pc = "idle", !.outcome = "returned", !.result = "set",
                 !.cls = Null, !.call = 0]
  ELSE LET cls == Head(c.todo) IN
       IF cls \in cp.portable
       THEN SubtypesContinue([c EXCEPT !.todo = Tail(c.todo),
                                       !.acc = c.acc \cup {cls}], cp)
       ELSE [c EXCEPT !.todo = Tail(c.todo), !.cls = cls, !.pc = "check",
                      !.call = 1]

\* isPortableType(cls) has come to an end inside a subtype method: an
\* exception leaves the method, a result of true adds cls
SubtypesAfterAnswer(c, cp) ==
  IF c.pc # "idle" \/ c.outcome = "threw" THEN c
  ELSE SubtypesContinue(
         [c EXCEPT !.acc = IF c.result = "TRUE" THEN c.acc \cup {c.cls}
                           ELSE c.acc,
                   !.outcome = "none", !.result = Null], cp)

\* getEnvironmentConfig returns r: to the host, or to isPortableType
CallerAfterReturn(c, r, cp) ==
  IF c.op = "getEnvironmentConfig"
  THEN [c EXCEPT !.pc = "idle", !.outcome = "returned", !.result = r]
  ELSE IF c.op = "isPortableType" THEN IsPortableTypeContinues(c, r, cp)
  ELSE SubtypesAfterAnswer(IsPortableTypeContinues(c, r, cp), cp)

\* a thread calls getEnvironmentConfig()
CacheCallGet(t) ==
  /\ callers[t].pc = "idle"
  /\ callers' = [callers EXCEPT ![t] =
                   [IdleCaller EXCEPT !.op = "getEnvironmentConfig",
                                      !.pc = "check", !.call = 1,
                                      !.wrote = callers[t].wrote]]
  /\ UNCHANGED <<environmentConfigCache, cacheWrites, loadRuns, received,
                 editorVars, appVars, portableVars, envelopeVars, flagVars>>

\* a thread calls isPortableType(cls): an annotated class is answered at
\* once, any other class asks getEnvironmentConfig()
CacheCallIsPortableType(t, cls) ==
  /\ callers[t].pc = "idle"
  /\ callers' = [callers EXCEPT ![t] =
                   IF cls \in classpath.portable
                   THEN [IdleCaller EXCEPT !.op = "isPortableType", !.cls = cls,
                                           !.outcome = "returned",
                                           !.result = "TRUE",
                                           !.wrote = callers[t].wrote]
                   ELSE [IdleCaller EXCEPT !.op = "isPortableType", !.cls = cls,
                                           !.pc = "check", !.call = 1,
                                           !.wrote = callers[t].wrote]]
  /\ UNCHANGED <<environmentConfigCache, cacheWrites, loadRuns, received,
                 editorVars, appVars, portableVars, envelopeVars, flagVars>>

\* a thread calls getAllPortableConcreteSubtypes(clazz) or
\* getAllPortableSubtypes(clazz): clazz and then its subtypes are asked
\* about; for an interface getAllPortableSubtypes takes them all unasked
CacheCallSubtypes(t, m, clazz) ==
  /\ callers[t].pc = "idle"
  /\ callers' = [callers EXCEPT ![t] =
                   IF m = "getAllPortableSubtypes" /\ IsInterface(clazz)
                   THEN [IdleCaller EXCEPT
                           !.op = m, !.outcome = "returned", !.result = "set",
                           !.acc = {clazz} \cup Range(SubTypesOf(clazz)),
                           !.wrote = callers[t].wrote]
                   ELSE SubtypesContinue(
                          [IdleCaller EXCEPT
                             !.op = m,
                             !.todo = <<clazz>> \o SubTypesOf(clazz),
                             !.wrote = callers[t].wrote], classpath)]
  /\ UNCHANGED <<environmentConfigCache, cacheWrites, loadRuns, received,
                 editorVars, appVars, portableVars, envelopeVars, flagVars>>

\* if (_environmentConfigCache == null)
CacheCheck(t) ==
  /\ callers[t].pc = "check"
  /\ \E r \in VisibleValues(callers[t]) :
       callers' = [callers EXCEPT ![t] =
                     [callers[t] EXCEPT !.pc = IF r = Null THEN "load"
                                               ELSE "return"]]
  /\ UNCHANGED <<environmentConfigCache, cacheWrites, loadRuns, received,
                 editorVars, appVars, portableVars, envelopeVars, flagVars>>

\* _environmentConfigCache = loadConfiguredPortableTypes()
CacheLoad(t) ==
  /\ callers[t].pc = "load"
  /\ environmentConfigCache' = t
  /\ cacheWrites' = cacheWrites \cup {t}
  /\ loadRuns' = loadRuns + 1
  /\ callers' = [callers EXCEPT ![t] =
                   [callers[t] EXCEPT !.pc = "return", !.wrote = TRUE]]
  /\ UNCHANGED <<received, editorVars, appVars, portableVars, envelopeVars,
                 flagVars>>

\* return _environmentConfigCache
CacheReturn(t) ==
  /\ callers[t].pc = "return"
  /\ \E r \in VisibleValues(callers[t]) :
       /\ callers' = [callers EXCEPT ![t] =
                        CallerAfterReturn(callers[t], r, classpath)]
       /\ received' = received \cup {r}
  /\ UNCHANGED <<environmentConfigCache, cacheWrites, loadRuns, editorVars,
                 appVars, portableVars, envelopeVars, flagVars>>

CacheNext ==
  \/ \E t \in Threads : CacheCallGet(t)
  \/ \E t \in Threads, cls \in AskedClasses : CacheCallIsPortableType(t, cls)
  \/ \E t \in Threads, m \in SubtypeMethods, clazz \in SubtypeRoots :
       CacheCallSubtypes(t, m, clazz)
  \/ \E t \in Threads : CacheCheck(t)
  \/ \E t \in Threads : CacheLoad(t)
  \/ \E t \in Threads : CacheReturn(t)

-----------------------------------------------------------------------------
\* the props of a ServerlessWorkflowEditor have neither of the two
NoDbProps == [onShowPreviewChange |-> FALSE, showEditor |-> FALSE]

\* Props (Db): showEditor?: boolean; onShowPreviewChange?: (...) => void.
\* The host passes onShowPreviewChange or leaves it out; it mounts the
\* component without the preview, which the toolbar then switches.
DbProps == [onShowPreviewChange : BOOLEAN, showEditor : {FALSE}]

\* the polling effect has not run: no interval, no callback
NoTimer == "no timer"

\* useState({originalContent: ..., path: ""})
FirstInitialContent(i) ==
  [originalContent |-> IF i = "Swf" THEN "" ELSE INITIAL_CONTENT, path |-> ""]

EditorInit ==
  /\ impl \in Impls
  /\ props \in (IF impl = "Swf" THEN {NoDbProps} ELSE DbProps)
  /\ widgetShows \in WidgetKinds
  /\ mounted = FALSE
  /\ effects = {}
  /\ queue = <<>>
  /\ initialContent = FirstInitialContent(impl)
  /\ diagramOutOfSync = FALSE
  /\ svgContainer = NullRef
  /\ widget = NoWidget
  /\ newContentRef = ""
  /\ oldContentRef = ""
  /\ content = ""
  /\ contentUpdate = <<>>
  /\ showPreview = props.showEditor
  /\ showUpdate = <<>>
  /\ timers = 0
  /\ timerContent = NoTimer
  /\ out = <<>>
  /\ last = Did("init", "none", "", FALSE)
  /\ everSet = FALSE
  /\ fresh = NoFresh
  /\ snap = NoSnap

-----------------------------------------------------------------------------
(* The dev-webapp App (App.tsx).  Nothing in App.tsx sets fileContent (the *)
(* only calls of setFileContent are inside the commented block), so the    *)
(* JSX never renders the text editor: swfTextEditorRef stays a null ref,   *)
(* no change is reported and onSwfTextEditorContentChanged is not called.  *)
(* Nothing assigns editor either (useRef<EditorApi>() starts undefined),   *)
(* so the history buttons dereference undefined.  The text editor is not   *)
(* part of the sources; it is modelled as a history of edits of which some *)
(* are undone.                                                             *)

NullTextEditor == [mounted |-> FALSE, undoable |-> 0, redoable |-> 0]

TextEditorEdit(w) == [w EXCEPT !.undoable = @ + 1, !.redoable = 0]

TextEditorCanUndo(w) == w.mounted /\ w.undoable > 0

TextEditorCanRedo(w) == w.mounted /\ w.redoable > 0

TextEditorUndo(w) ==
  IF TextEditorCanUndo(w)
  THEN [w EXCEPT !.undoable = @ - 1, !.redoable = @ + 1] ELSE w

TextEditorRedo(w) ==
  IF TextEditorCanRedo(w)
  THEN [w EXCEPT !.undoable = @ + 1, !.redoable = @ - 1] ELSE w

TextEditorOperations == {"EDIT", "UNDO", "REDO"}

NoAction == [op |-> "none", steps |-> 0, hostCalls |-> 0, again |-> 0,
             outcome |-> "none"]

\* the App's refs while the editor adapters are looked at: nothing attached
AppIdle ==
  /\ swfTextEditorRef = NullTextEditor
  /\ editorRef = "undefined"
  /\ reports = <<>>
  /\ action = NoAction

\* onSwfTextEditorContentChanged: the method it calls on the text editor,
\* swfTextEditorRef.current?.undo() / .redo(); nothing for EDIT, and
\* nothing on a null ref (?.)
AppHandlerTextEditorCall(w, operation) ==
  IF ~w.mounted THEN "none"
  ELSE IF operation = "UNDO" THEN "undo"
  ELSE IF operation = "REDO" THEN "redo"
  ELSE "none"

\* onSwfTextEditorContentChanged: editor.current?.undo() / .redo(), skipped
\* when the ref is undefined; nothing for EDIT
AppHandlerEditorCalls(operation, ref) ==
  IF operation \in {"UNDO", "REDO"} /\ ref # "undefined" THEN 1 ELSE 0

\* the text editor after the call the handler makes on it
AppHandlerTextEditorAfter(w, operation) ==
  IF AppHandlerTextEditorCall(w, operation) = "undo" THEN TextEditorUndo(w)
  ELSE IF AppHandlerTextEditorCall(w, operation) = "redo" THEN TextEditorRedo(w)
  ELSE w

\* undo / redo of the App (the history buttons): editor.current!.undo()
AppButtonOutcome(ref) == IF ref = "undefined" THEN "threw" ELSE "returned"

\* the user types in the text editor, which reports the change as EDIT
AppTextEditorEdit ==
  /\ swfTextEditorRef.mounted /\ reports = <<>>
  /\ swfTextEditorRef.undoable < MaxEdits
  /\ swfTextEditorRef' = TextEditorEdit(swfTextEditorRef)
  /\ reports' = <<"EDIT">>
  /\ action' = [NoAction EXCEPT !.op = "EDIT"]
  /\ UNCHANGED <<editorRef, editorVars, portableVars, envelopeVars, flagVars, cacheVars>>

\* the user undoes in the text editor, which reports the change as UNDO
AppTextEditorUndo ==
  /\ TextEditorCanUndo(swfTextEditorRef) /\ reports = <<>>
  /\ swfTextEditorRef' = TextEditorUndo(swfTextEditorRef)
  /\ reports' = <<"UNDO">>
  /\ action' = [NoAction EXCEPT !.op = "UNDO", !.steps = 1]
  /\ UNCHANGED <<editorRef, editorVars, portableVars, envelopeVars, flagVars, cacheVars>>

AppTextEditorRedo ==
  /\ TextEditorCanRedo(swfTextEditorRef) /\ reports = <<>>
  /\ swfTextEditorRef' = TextEditorRedo(swfTextEditorRef)
  /\ reports' = <<"REDO">>
  /\ action' = [NoAction EXCEPT !.op = "REDO", !.steps = 1]
  /\ UNCHANGED <<editorRef, editorVars, portableVars, envelopeVars, flagVars, cacheVars>>

(* onSwfTextEditorContentChanged(newContent, operation): the handler of a  *)
(* reported change.  An undo or redo it applies to the text editor is      *)
(* reported in turn.                                                       *)
AppOnContentChanged ==
  /\ reports # <<>>
  /\ LET operation == Head(reports)
         after == AppHandlerTextEditorAfter(swfTextEditorRef, operation)
         applied == after # swfTextEditorRef
     IN /\ swfTextEditorRef' = after
        /\ reports' = Tail(reports) \o (IF applied THEN <<operation>> ELSE <<>>)
        /\ action' =
             [action EXCEPT
                !.steps = @ + (IF applied THEN 1 ELSE 0),
                !.hostCalls = @ + AppHandlerEditorCalls(operation, editorRef),
                !.again = @ + (IF AppHandlerTextEditorCall(swfTextEditorRef,
                                                           operation) # "none"
                               THEN 1 ELSE 0),
                !.outcome = "returned"]
  /\ UNCHANGED <<editorRef, editorVars, portableVars, envelopeVars, flagVars, cacheVars>>

\* the history buttons: undo = editor.current!.undo().finally()
AppUndo ==
  /\ reports = <<>>
  /\ action' = [NoAction EXCEPT
                  !.op = "undoButton",
                  !.hostCalls = IF editorRef = "undefined" THEN 0 ELSE 1,
                  !.outcome = AppButtonOutcome(editorRef)]
  /\ UNCHANGED <<swfTextEditorRef, editorRef, reports, editorVars, portableVars,
                 envelopeVars, flagVars, cacheVars>>

AppRedo ==
  /\ reports = <<>>
  /\ action' = [NoAction EXCEPT
                  !.op = "redoButton",
                  !.hostCalls = IF editorRef = "undefined" THEN 0 ELSE 1,
                  !.outcome = AppButtonOutcome(editorRef)]
  /\ UNCHANGED <<swfTextEditorRef, editorRef, reports, editorVars, portableVars,
                 envelopeVars, flagVars, cacheVars>>

AppNext ==
  \/ AppTextEditorEdit
  \/ AppTextEditorUndo
  \/ AppTextEditorRedo
  \/ AppOnContentChanged
  \/ AppUndo
  \/ AppRedo

-----------------------------------------------------------------------------
(* Specifications: each part of the program is explored on its own, the   *)
(* others stay as they are constructed.                                  *)

\* the editor adapters as constructed, while another part is explored
EditorIdle == EditorInit /\ impl = "Swf" /\ widgetShows = "deps"

AppInit ==
  /\ EditorIdle /\ PortableIdle /\ EnvelopeIdle /\ FlagsIdle
  /\ CacheIdle
  /\ AppIdle

SpecApp == AppInit /\ [][AppNext]_vars

PortableInit ==
  /\ EditorIdle /\ AppIdle /\ EnvelopeIdle /\ FlagsIdle
  /\ CacheIdle
  /\ classpath \in Classpaths
  /\ environmentConfig = NoConfig

SpecPortable == PortableInit /\ [][PortableNext]_vars

\* the editor adapters, seen on their own
EnvelopeInit ==
  /\ EditorIdle /\ AppIdle /\ PortableIdle /\ FlagsIdle
  /\ CacheIdle
  /\ envelopeEditor \in EnvelopeEditors
  /\ editorCalls = <<>>
  /\ channelSent = <<>>
  /\ envelopeLast = NoEnvelopeCall

SpecEnvelope == EnvelopeInit /\ [][EnvelopeNext]_vars

FlagsInit ==
  /\ EditorIdle /\ AppIdle /\ PortableIdle /\ EnvelopeIdle
  /\ CacheIdle
  /\ flagCache = [m \in FlagMethods |-> Null]
  /\ threads \in [Threads -> {IdleThread(k) : k \in StackKinds}]
  /\ returnedSoFar = [m \in FlagMethods |-> {}]

SpecFlags == FlagsInit /\ [][FlagsNext]_vars

CacheInit ==
  /\ EditorIdle /\ AppIdle /\ EnvelopeIdle /\ FlagsIdle
  /\ classpath \in CacheClasspaths
  /\ environmentConfig = NoConfig
  /\ environmentConfigCache = Null
  /\ cacheWrites = {Null}
  /\ callers = [t \in Threads |-> IdleCaller]
  /\ loadRuns = 0
  /\ received = {}

SpecCache == CacheInit /\ [][CacheNext]_vars

\* the editor adapters, seen on their own
Init ==
  /\ EditorInit /\ AppIdle /\ PortableIdle /\ EnvelopeIdle /\ FlagsIdle
  /\ CacheIdle

\* React applies the queued updates in order: the state is the last one
CommittedContent(q, ic) == IF q = <<>> THEN ic ELSE q[Len(q)]

\* the same for a state with at most one update pending
CommittedState(update, current) ==
  IF update = <<>> THEN current ELSE update[1]

\* {initialContent.path !== "" && <...MonacoEditor content=... ref=.../>}
RenderedWidget(w, ic) ==
  IF ic.path # "" THEN WidgetShow(w, ic.originalContent) ELSE NoWidget

\* the widget after a commit: mounted when the path becomes known, shown
\* the content prop when it takes it, else left with what it holds
CommittedWidget(w, kind, old, ic, parentRenders) ==
  IF ~w.mounted \/ WidgetTakesContent(kind, old, ic, parentRenders)
  THEN RenderedWidget(w, ic)
  ELSE w

\* history: the commit of a setContent, and whether the widget took it
CommittedFresh(f, took) ==
  IF f.stage = "called" THEN [f EXCEPT !.stage = "committed", !.shown = took]
  ELSE f

\* the effect's call of onContentChanged(initialContent.originalContent)
ContentChangePass(c) == [kind |-> "onContentChanged", arg |-> c]

\* props.onShowPreviewChange!(showPreview)
ShowPreviewChange(v) ==
  [kind |-> "onShowPreviewChange", arg |-> IF v THEN "true" ELSE "false"]

\* useEffect: props.onReady.call(null); onContentChanged(originalContent)
SwfEffect(ic) ==
  <<Ready, ContentChangePass(ic.originalContent)>>
    \o SwfOnContentChangedEmits(ic.originalContent, "NONE")

DbEffect(ic) ==
  <<Ready, ContentChangePass(ic.originalContent)>>
    \o DbOnContentChangedEmits(ic.originalContent, "NONE")

(* The passive effects a commit leaves to run.  The effect of onReady has  *)
(* [initialContent, onContentChanged, props.onReady] as dependencies:      *)
(* initialContent is a new object after every setContent, and              *)
(* onContentChanged is useCallback(..., [props]), new whenever the parent  *)
(* renders the component again, since props is a new object then.          *)
SwfPendingEffects(isMount, setInitial, parentRenders) ==
  IF isMount \/ setInitial \/ parentRenders THEN {"ready"} ELSE {}

\* Db: the effects of [props, showPreview], of [content], and of onReady
DbPendingEffects(isMount, setInitial, parentRenders, showChanged, contentChanged) ==
  {e \in {"show", "polling", "ready"} :
     \/ isMount
     \/ e = "show" /\ (parentRenders \/ showChanged)
     \/ e = "polling" /\ contentChanged
     \/ e = "ready" /\ (setInitial \/ parentRenders)}

(* Swf: a render of the component and its commit: the first one, one after *)
(* setContent, or one because the parent renders.  The commit attaches the *)
(* handle and the widget; the effect is left to run.  React runs the       *)
(* effects of a commit before it renders again.                            *)
SwfCommit(parentRenders) ==
  /\ impl = "Swf" /\ effects = {}
  /\ IF mounted THEN queue # <<>> \/ parentRenders ELSE ~parentRenders
  /\ LET ic == CommittedContent(queue, initialContent) IN
       /\ initialContent' = ic
       /\ widget' = CommittedWidget(widget, widgetShows, initialContent, ic,
                                    parentRenders)
  /\ effects' = SwfPendingEffects(~mounted, queue # <<>>, parentRenders)
  /\ mounted' = TRUE
  /\ queue' = <<>>
  /\ out' = <<>>
  /\ fresh' = CommittedFresh(fresh,
       ~widget.mounted
         \/ WidgetTakesContent(widgetShows, initialContent, initialContent',
                               parentRenders))
  /\ snap' = NoSnap
  /\ last' = Did("commit", "none", "", FALSE)
  /\ UNCHANGED <<impl, props, widgetShows, diagramOutOfSync, svgContainer,
                 newContentRef, oldContentRef, content, contentUpdate,
                 showPreview, showUpdate, timers, timerContent, everSet>>
  /\ UNCHANGED others

(* Swf: the effect of the last commit runs: onReady, then                  *)
(* onContentChanged(initialContent.originalContent)                        *)
SwfFlushEffects ==
  /\ impl = "Swf" /\ effects # {}
  /\ out' = SwfEffect(initialContent)
  /\ diagramOutOfSync' =
       DiagramOutOfSyncAfter(svgContainer, initialContent.originalContent)
  /\ svgContainer' =
       SvgContainerAfter(svgContainer, initialContent.originalContent)
  /\ effects' = {}
  /\ snap' = NoSnap
  /\ last' = Did("effect",
                 SwfOnContentChangedOutcome(svgContainer,
                                            initialContent.originalContent),
                 "", FALSE)
  /\ UNCHANGED <<impl, props, widgetShows, mounted, queue, initialContent,
                 widget, newContentRef, oldContentRef, content,
                 contentUpdate, showPreview, showUpdate, timers,
                 timerContent, everSet, fresh>>
  /\ UNCHANGED others

\* the polling effect on mount: const timer = setInterval(..., UPDATE_TIME)
PollingTimersAfterMount(n) == n + 1

\* the polling effect has [content] as dependencies: when content changes,
\* its cleanup clears the timer and the effect sets a new one
PollingTimersAfter(n) == (n - 1) + 1

\* unmounting runs the cleanup of the polling effect: clearTimeout(timer)
PollingTimersAfterUnmount(n) == IF n > 0 THEN n - 1 ELSE n

\* the setInterval callback: whether one of its two branches is taken
TickSetsContent(new, old, c) == new # old \/ c # old

\* the setInterval callback: what it leaves in oldContentRef
TickOldContentRef(new, old) == IF new # old THEN new ELSE old

\* the setInterval callback: the value it passes to setContent
TickContent(new, old, c) == IF new # old THEN new ELSE old

\* setState(v): an update that is queued, none when v is the state already
StateUpdate(v, current) == IF v = current THEN <<>> ELSE <<v>>

(* Db: a render of the component and its commit.  It applies every update  *)
(* that is pending: of initialContent (setContent), of content (the timer) *)
(* and of showPreview (the toolbar).                                       *)
DbCommit(parentRenders) ==
  /\ impl = "Db" /\ effects = {}
  /\ IF mounted
     THEN queue # <<>> \/ contentUpdate # <<>> \/ showUpdate # <<>>
            \/ parentRenders
     ELSE ~parentRenders
  /\ LET ic == CommittedContent(queue, initialContent) IN
       /\ initialContent' = ic
       /\ widget' = CommittedWidget(widget, widgetShows, initialContent, ic,
                                    parentRenders)
  /\ content' = CommittedState(contentUpdate, content)
  /\ showPreview' = CommittedState(showUpdate, showPreview)
  /\ contentUpdate' = <<>>
  /\ showUpdate' = <<>>
  /\ effects' = DbPendingEffects(~mounted, queue # <<>>, parentRenders,
                                 showPreview' # showPreview,
                                 content' # content)
  /\ mounted' = TRUE
  /\ queue' = <<>>
  /\ out' = <<>>
  /\ fresh' = CommittedFresh(fresh,
       ~widget.mounted
         \/ WidgetTakesContent(widgetShows, initialContent, initialContent',
                               parentRenders))
  /\ snap' = NoSnap
  /\ last' = Did("commit", "none", "", FALSE)
  /\ UNCHANGED <<impl, props, widgetShows, diagramOutOfSync, svgContainer,
                 newContentRef, oldContentRef, timers, timerContent,
                 everSet>>
  /\ UNCHANGED others

\* what the effects of es tell the host, in the order of their declaration
DbEffectsEmit(es, show, ic) ==
  (IF "show" \in es THEN <<ShowPreviewChange(show)>> ELSE <<>>)
    \o (IF "ready" \in es THEN DbEffect(ic) ELSE <<>>)

\* the timers after the effects of es: the polling effect, when among them,
\* runs its cleanup (if it ran before) and sets an interval
DbEffectsTimers(es, n, tc) ==
  IF "polling" \in es
  THEN IF tc = NoTimer THEN PollingTimersAfterMount(n)
       ELSE PollingTimersAfter(n)
  ELSE n

(* Db: the effects of the last commit run, in the order of their           *)
(* declaration: onShowPreviewChange(showPreview); the timer; onReady and   *)
(* onContentChanged(initialContent.originalContent)                        *)
DbFlushEffects ==
  /\ impl = "Db" /\ effects # {}
  /\ "show" \in effects => props.onShowPreviewChange
  /\ out' = DbEffectsEmit(effects, showPreview, initialContent)
  /\ timers' = DbEffectsTimers(effects, timers, timerContent)
  /\ timerContent' = IF "polling" \in effects THEN content ELSE timerContent
  /\ newContentRef' = IF "ready" \in effects
                      THEN initialContent.originalContent ELSE newContentRef
  /\ effects' = {}
  /\ snap' = NoSnap
  /\ last' = Did("effect", "returned", "", FALSE)
  /\ UNCHANGED <<impl, props, widgetShows, mounted, queue, initialContent,
                 diagramOutOfSync, svgContainer, widget, oldContentRef,
                 content, contentUpdate, showPreview, showUpdate, everSet,
                 fresh>>
  /\ UNCHANGED others

\* the component is taken out of the page: a later mount starts afresh
TornDown ==
  /\ mounted' = FALSE
  /\ effects' = {}
  /\ queue' = <<>>
  /\ initialContent' = FirstInitialContent(impl)
  /\ diagramOutOfSync' = FALSE
  /\ svgContainer' = NullRef
  /\ widget' = NoWidget
  /\ newContentRef' = ""
  /\ oldContentRef' = ""
  /\ content' = ""
  /\ contentUpdate' = <<>>
  /\ showPreview' = props.showEditor
  /\ showUpdate' = <<>>
  /\ timerContent' = NoTimer
  /\ everSet' = FALSE
  /\ fresh' = NoFresh
  /\ snap' = NoSnap
  /\ UNCHANGED <<impl, props, widgetShows>>

(* Db without onShowPreviewChange: props.onShowPreviewChange!(showPreview) *)
(* throws a TypeError in the first effect of the mount.  Whether React     *)
(* still runs the effects after it (rest) depends on its version; either   *)
(* way it then unmounts the component, which clears a timer that was set.  *)
DbFlushEffectsThrows(rest) ==
  /\ impl = "Db" /\ "show" \in effects /\ ~props.onShowPreviewChange
  /\ out' = IF rest
            THEN DbEffectsEmit(effects \ {"show"}, showPreview, initialContent)
            ELSE <<>>
  /\ timers' = timers
  /\ TornDown
  /\ last' = Did("effect", "threw", "TypeError", rest)
  /\ UNCHANGED others

\* the host unmounts the component; the cleanup of the polling effect runs
Unmount ==
  /\ mounted /\ effects = {}
  /\ timers' = PollingTimersAfterUnmount(timers)
  /\ TornDown
  /\ out' = <<>>
  /\ last' = Did("unmount", "none", "", FALSE)
  /\ UNCHANGED others

\* <Toolbar onPreviewChange={(v) => setShowPreview(v)} preview={showPreview}/>
\* the switch of the toolbar reports the opposite of what it shows
DbPreviewChange ==
  /\ impl = "Db" /\ mounted
  /\ showUpdate' = StateUpdate(~showPreview, showPreview)
  /\ out' = <<>>
  /\ snap' = NoSnap
  /\ last' = Did("previewChange", "none", "", FALSE)
  /\ UNCHANGED <<impl, props, widgetShows, mounted, effects, queue,
                 initialContent, diagramOutOfSync, svgContainer, widget,
                 newContentRef, oldContentRef, content, contentUpdate,
                 showPreview, timers, timerContent, everSet, fresh>>
  /\ UNCHANGED others

SwfSetContent(path, newContent) ==
  /\ impl = "Swf" /\ mounted /\ Len(queue) < MaxQueue
  /\ queue' = Append(queue, SwfStoredContent(path, newContent))
  /\ out' = <<>>
  /\ last' = Did("setContent", SetContentOutcome(path, newContent), "", FALSE)
  /\ everSet' = TRUE
  /\ fresh' = [stage |-> "called", path |-> path, content |-> newContent,
               shown |-> FALSE]
  /\ snap' = NoSnap
  /\ UNCHANGED <<impl, mounted, initialContent, diagramOutOfSync, svgContainer,
                 widget, newContentRef, oldContentRef, content>>
  /\ UNCHANGED <<timers, reactVars, others>>

DbSetContent(path, newContent) ==
  /\ impl = "Db" /\ mounted /\ Len(queue) < MaxQueue
  /\ queue' = Append(queue, DbStoredContent(path, newContent))
  /\ out' = <<>>
  /\ last' = Did("setContent", SetContentOutcome(path, newContent), "", FALSE)
  /\ everSet' = TRUE
  /\ fresh' = [stage |-> "called", path |-> path, content |-> newContent,
               shown |-> FALSE]
  /\ snap' = NoSnap
  /\ UNCHANGED <<impl, mounted, initialContent, diagramOutOfSync, svgContainer,
                 widget, newContentRef, oldContentRef, content>>
  /\ UNCHANGED <<timers, reactVars, others>>

SwfGetContent ==
  /\ impl = "Swf" /\ mounted
  /\ out' = <<>>
  /\ last' = Did("getContent", SwfGetContentResult(widget).outcome,
                 SwfGetContentResult(widget).value, FALSE)
  /\ snap' = NoSnap
  /\ UNCHANGED <<impl, mounted, queue, initialContent, diagramOutOfSync, svgContainer,
                 widget, newContentRef, oldContentRef, content, everSet, fresh>>
  /\ UNCHANGED <<timers, reactVars, others>>

DbGetContent ==
  /\ impl = "Db" /\ mounted
  /\ out' = <<>>
  /\ last' = Did("getContent", DbGetContentResult(widget).outcome,
                 DbGetContentResult(widget).value, FALSE)
  /\ snap' = NoSnap
  /\ UNCHANGED <<impl, mounted, queue, initialContent, diagramOutOfSync, svgContainer,
                 widget, newContentRef, oldContentRef, content, everSet, fresh>>
  /\ UNCHANGED <<timers, reactVars, others>>

SwfGetPreview ==
  /\ impl = "Swf" /\ mounted
  /\ out' = <<>>
  /\ last' = Did("getPreview", SwfGetPreviewResult(svgContainer).outcome,
                 SwfGetPreviewResult(svgContainer).value, FALSE)
  /\ snap' = NoSnap
  /\ UNCHANGED <<impl, mounted, queue, initialContent, diagramOutOfSync, svgContainer,
                 widget, newContentRef, oldContentRef, content, everSet, fresh>>
  /\ UNCHANGED <<timers, reactVars, others>>

DbGetPreview ==
  /\ impl = "Db" /\ mounted
  /\ out' = <<>>
  /\ last' = Did("getPreview", DbGetPreviewResult.outcome,
                 DbGetPreviewResult.value, FALSE)
  /\ snap' = NoSnap
  /\ UNCHANGED <<impl, mounted, queue, initialContent, diagramOutOfSync, svgContainer,
                 widget, newContentRef, oldContentRef, content, everSet, fresh>>
  /\ UNCHANGED <<timers, reactVars, others>>

(* Swf undo: swfMonacoEditorRef.current?.undo() || Promise.resolve().  An  *)
(* undo the widget applies comes back through onContentChanged(.., UNDO).  *)
SwfUndoEmits(w) ==
  IF WidgetCanUndo(w)
  THEN SwfOnContentChangedEmits(WidgetUndo(w).content, "UNDO") ELSE <<>>

SwfRedoEmits(w) ==
  IF WidgetCanRedo(w)
  THEN SwfOnContentChangedEmits(WidgetRedo(w).content, "REDO") ELSE <<>>

\* the widget method the adapter's undo / redo delegates to
SwfUndoWidget(w) == WidgetUndo(w)
SwfRedoWidget(w) == WidgetRedo(w)
DbUndoWidget(w) == WidgetUndo(w)
DbRedoWidget(w) == WidgetRedo(w)

SwfUndo ==
  /\ impl = "Swf" /\ mounted
  /\ widget' = SwfUndoWidget(widget)
  /\ out' = SwfUndoEmits(widget)
  /\ diagramOutOfSync' =
       IF WidgetCanUndo(widget)
       THEN DiagramOutOfSyncAfter(svgContainer, widget'.content)
       ELSE diagramOutOfSync
  /\ svgContainer' =
       IF WidgetCanUndo(widget)
       THEN SvgContainerAfter(svgContainer, widget'.content) ELSE svgContainer
  /\ last' = Did("undo", "resolved", "", WidgetCanUndo(widget))
  /\ fresh' = IF WidgetCanUndo(widget) THEN NoFresh ELSE fresh
  /\ snap' = IF WidgetCanUndo(widget)
             THEN [stage |-> "undone", got |-> SwfGetContentResult(widget).value,
                   wc |-> widget.content, newRef |-> newContentRef]
             ELSE NoSnap
  /\ UNCHANGED <<impl, mounted, queue, initialContent, newContentRef,
                 oldContentRef, content, everSet>>
  /\ UNCHANGED <<timers, reactVars, others>>

SwfRedo ==
  /\ impl = "Swf" /\ mounted
  /\ widget' = SwfRedoWidget(widget)
  /\ out' = SwfRedoEmits(widget)
  /\ diagramOutOfSync' =
       IF WidgetCanRedo(widget)
       THEN DiagramOutOfSyncAfter(svgContainer, widget'.content)
       ELSE diagramOutOfSync
  /\ svgContainer' =
       IF WidgetCanRedo(widget)
       THEN SvgContainerAfter(svgContainer, widget'.content) ELSE svgContainer
  /\ last' = Did("redo", "resolved", "", WidgetCanRedo(widget))
  /\ fresh' = IF WidgetCanRedo(widget) THEN NoFresh ELSE fresh
  /\ snap' = IF snap.stage = "undone" THEN [snap EXCEPT !.stage = "redone"]
             ELSE NoSnap
  /\ UNCHANGED <<impl, mounted, queue, initialContent, newContentRef,
                 oldContentRef, content, everSet>>
  /\ UNCHANGED <<timers, reactVars, others>>

(* Db undo: if the ref is set, widget.undo() and then                      *)
(* newContentRef.current = widget.getContent()                             *)
DbUndoEmits(w) ==
  IF WidgetCanUndo(w)
  THEN DbOnContentChangedEmits(WidgetUndo(w).content, "UNDO") ELSE <<>>

DbRedoEmits(w) ==
  IF WidgetCanRedo(w)
  THEN DbOnContentChangedEmits(WidgetRedo(w).content, "REDO") ELSE <<>>

DbUndo ==
  /\ impl = "Db" /\ mounted
  /\ widget' = DbUndoWidget(widget)
  /\ out' = DbUndoEmits(widget)
  /\ newContentRef' = IF widget.mounted THEN widget'.content ELSE newContentRef
  /\ last' = Did("undo", "resolved", "", WidgetCanUndo(widget))
  /\ fresh' = IF WidgetCanUndo(widget) THEN NoFresh ELSE fresh
  /\ snap' = IF WidgetCanUndo(widget)
             THEN [stage |-> "undone", got |-> DbGetContentResult(widget).value,
                   wc |-> widget.content, newRef |-> newContentRef]
             ELSE NoSnap
  /\ UNCHANGED <<impl, mounted, queue, initialContent, diagramOutOfSync,
                 svgContainer, oldContentRef, content, everSet>>
  /\ UNCHANGED <<timers, reactVars, others>>

DbRedo ==
  /\ impl = "Db" /\ mounted
  /\ widget' = DbRedoWidget(widget)
  /\ out' = DbRedoEmits(widget)
  /\ newContentRef' = IF widget.mounted THEN widget'.content ELSE newContentRef
  /\ last' = Did("redo", "resolved", "", WidgetCanRedo(widget))
  /\ fresh' = IF WidgetCanRedo(widget) THEN NoFresh ELSE fresh
  /\ snap' = IF snap.stage = "undone" THEN [snap EXCEPT !.stage = "redone"]
             ELSE NoSnap
  /\ UNCHANGED <<impl, mounted, queue, initialContent, diagramOutOfSync,
                 svgContainer, oldContentRef, content, everSet>>
  /\ UNCHANGED <<timers, reactVars, others>>

\* faulty variant: validate reports a notification
ValidateResultNotEmpty == <<"Notification">>

\* validate: return []
ValidateResult == <<>>

Validate ==
  /\ mounted
  /\ out' = <<>>
  /\ last' = Did("validate", "returned", ValidateResult, FALSE)
  /\ snap' = NoSnap
  /\ UNCHANGED <<impl, mounted, queue, initialContent, diagramOutOfSync,
                 svgContainer, widget, newContentRef, oldContentRef, content,
                 everSet, fresh>>
  /\ UNCHANGED <<timers, reactVars, others>>

\* faulty variant: setTheme flips the widget's theme instead of setting it
SetThemeWidgetToggles(w, theme) ==
  IF w.mounted
  THEN [w EXCEPT !.theme = IF w.theme = "LIGHT" THEN "DARK" ELSE "LIGHT"]
  ELSE w

\* setTheme: ref.current?.setTheme(theme), skipped on a null ref
SetThemeWidget(w, theme) == WidgetSetTheme(w, theme)

\* setTheme: ref.current?.setTheme(theme) || Promise.resolve()
SetTheme(theme) ==
  /\ mounted
  /\ widget' = SetThemeWidget(widget, theme)
  /\ out' = <<>>
  /\ last' = Did("setTheme", "resolved", theme, widget.mounted)
  /\ snap' = IF last.op = "setTheme" /\ last.value = theme
             THEN [NoSnap EXCEPT !.stage = "repeated"] ELSE NoSnap
  /\ UNCHANGED <<impl, mounted, queue, initialContent, diagramOutOfSync,
                 svgContainer, newContentRef, oldContentRef, content, everSet,
                 fresh>>
  /\ UNCHANGED <<timers, reactVars, others>>

(* The user types in the widget: onContentChange(newContent, EDIT) *)
SwfWidgetEdit(newContent) ==
  /\ impl = "Swf" /\ widget.mounted
  /\ newContent # widget.content /\ Len(widget.undo) < MaxHistory
  /\ widget' = WidgetApplyEdit(widget, newContent)
  /\ out' = SwfOnContentChangedEmits(newContent, "EDIT")
  /\ diagramOutOfSync' = DiagramOutOfSyncAfter(svgContainer, newContent)
  /\ svgContainer' = SvgContainerAfter(svgContainer, newContent)
  /\ last' = Did("widgetEdit",
                 SwfOnContentChangedOutcome(svgContainer, newContent), "", TRUE)
  /\ fresh' = NoFresh
  /\ snap' = NoSnap
  /\ UNCHANGED <<impl, mounted, queue, initialContent, newContentRef,
                 oldContentRef, content, everSet>>
  /\ UNCHANGED <<timers, reactVars, others>>

DbWidgetEdit(newContent) ==
  /\ impl = "Db" /\ widget.mounted
  /\ newContent # widget.content /\ Len(widget.undo) < MaxHistory
  /\ widget' = WidgetApplyEdit(widget, newContent)
  /\ out' = DbOnContentChangedEmits(newContent, "EDIT")
  /\ newContentRef' = newContent
  /\ last' = Did("widgetEdit", "none", "", TRUE)
  /\ fresh' = NoFresh
  /\ snap' = NoSnap
  /\ UNCHANGED <<impl, mounted, queue, initialContent, diagramOutOfSync,
                 svgContainer, oldContentRef, content, everSet>>
  /\ UNCHANGED <<timers, reactVars, others>>

(* Db: one firing of the setInterval callback that finds something to do: *)
(* it sets oldContentRef and calls setContent, which queues the update;    *)
(* the callback sees the content of the render that set the interval       *)
DbTick ==
  /\ impl = "Db" /\ mounted /\ timers > 0
  /\ TickSetsContent(newContentRef, oldContentRef, timerContent)
  /\ oldContentRef' = TickOldContentRef(newContentRef, oldContentRef)
  /\ contentUpdate' =
       StateUpdate(TickContent(newContentRef, oldContentRef, timerContent),
                   content)
  /\ out' = <<>>
  /\ last' = Did("tick", "none", "", FALSE)
  /\ snap' = NoSnap
  /\ UNCHANGED <<impl, props, widgetShows, mounted, effects, queue,
                 initialContent, diagramOutOfSync, svgContainer, widget,
                 newContentRef, content, showPreview, showUpdate, timers,
                 timerContent, everSet, fresh>>
  /\ UNCHANGED others

Next ==
  \/ \E parentRenders \in BOOLEAN : SwfCommit(parentRenders)
  \/ SwfFlushEffects
  \/ \E parentRenders \in BOOLEAN : DbCommit(parentRenders)
  \/ DbFlushEffects
  \/ \E rest \in BOOLEAN : DbFlushEffectsThrows(rest)
  \/ Unmount
  \/ DbPreviewChange
  \/ \E a \in SetContentArgs : SwfSetContent(a[1], a[2])
  \/ \E a \in DbSetContentArgs : DbSetContent(a[1], a[2])
  \/ SwfGetContent
  \/ DbGetContent
  \/ SwfGetPreview
  \/ DbGetPreview
  \/ SwfUndo
  \/ SwfRedo
  \/ DbUndo
  \/ DbRedo
  \/ Validate
  \/ \E t \in Themes : SetTheme(t)
  \/ \E c \in Contents \ {""} : SwfWidgetEdit(c)
  \/ \E c \in DbEdits : DbWidgetEdit(c)
  \/ DbTick

Spec == Init /\ [][Next]_vars

\* the steps of a DashbuilderEditor: those of Next that impl = "Db" allows,
\* but for validate(), which reads and writes nothing of the component
DbNext ==
  \/ \E parentRenders \in BOOLEAN : DbCommit(parentRenders)
  \/ DbFlushEffects
  \/ \E rest \in BOOLEAN : DbFlushEffectsThrows(rest)
  \/ Unmount
  \/ DbPreviewChange
  \/ \E a \in DbSetContentArgs : DbSetContent(a[1], a[2])
  \/ DbGetContent
  \/ DbGetPreview
  \/ DbUndo
  \/ DbRedo
  \/ \E t \in Themes : SetTheme(t)
  \/ \E c \in DbEdits : DbWidgetEdit(c)
  \/ DbTick

DbInit == Init /\ impl = "Db"

\* the DashbuilderEditor with its timer: while the component is mounted,
\* setInterval keeps firing the callback every UPDATE_TIME milliseconds,
\* and React renders the component when an update is queued and runs the
\* effects of every commit.  Nothing holds the host to mounting it.
SpecDashbuilder ==
  DbInit /\ [][DbNext]_vars
    /\ WF_vars(DbTick) /\ WF_vars(mounted /\ DbCommit(FALSE))
    /\ WF_vars(DbFlushEffects)

-----------------------------------------------------------------------------
(* Properties *)

NewEditsIn(o) == SelectSeq(o, LAMBDA n : n.kind = "onNewEdit")
CommandsIn(o) == SelectSeq(o, LAMBDA n : n.kind = "onStateControlCommandUpdate")

\* the lifecycle state "uninitialized": no content has been set
Uninitialized == ~everSet

\* the text the editor currently shows (or would show once a widget mounts)
CurrentContent ==
  IF widget.mounted THEN widget.content ELSE initialContent.originalContent

(* C1: ServerlessWorkflowEditor round trip.  Once setContent(path, content) *)
(* with a non-empty path has been committed, the widget holds the content   *)
(* it was given by that commit, and the widget has not changed since,       *)
(* getContent() resolves with exactly that content.                         *)
C1_SwfRoundTrip ==
  (impl = "Swf" /\ last.op = "getContent"
     /\ fresh.stage = "committed" /\ fresh.shown /\ fresh.path # "")
  => (last.outcome = "resolved" /\ last.value = fresh.content)

C1_Witness ==
  /\ impl = "Swf" /\ last.op = "getContent"
  /\ fresh.stage = "committed" /\ fresh.shown /\ fresh.path # ""
  /\ fresh.content = "wf-hello" /\ last.value = "wf-hello"

(* C2: DashbuilderEditor round trip, the same statement for the Dashbuilder *)
(* component: the content the host passed is what getContent() returns.     *)
C2_DbRoundTrip ==
  (impl = "Db" /\ last.op = "getContent"
     /\ fresh.stage = "committed" /\ fresh.path # "")
  => (last.outcome = "resolved" /\ last.value = fresh.content)

(* C3: getContent() called while uninitialized is rejected, and no         *)
(* content query (getContent, getPreview) returns a value before ready.   *)
C3_QueriesFailWhenUninitialized ==
  (last.op \in {"getContent", "getPreview"} /\ Uninitialized)
  => last.outcome # "resolved"

(* C4: exactly one onNewEdit per widget edit and per successful            *)
(* setContent (counted when the call's state update is committed and its   *)
(* effect has run).                                                        *)
C4_OneEditPerSetContentAndEdit ==
  /\ last.op = "widgetEdit" => Len(NewEditsIn(out)) = 1
  /\ (last.op = "effect" /\ fresh.stage = "committed")
       => Len(NewEditsIn(out)) = 1

\* the adapter's own state, the widget and the pending updates
AdapterState ==
  <<queue, initialContent, diagramOutOfSync, svgContainer, widget,
    newContentRef, oldContentRef, content, contentUpdate, showPreview,
    showUpdate, effects, timers, timerContent>>

(* C5: undo() with nothing to undo (no widget mounted, or a widget with an *)
(* empty history) is a no-op: it leaves the adapter and the widget exactly *)
(* as they are and sends no state-control command.                         *)
C5_UndoWithoutHistoryIsNoOp ==
  [][(last'.op = "undo" /\ ~WidgetCanUndo(widget))
       => /\ AdapterState' = AdapterState
          /\ CommandsIn(out') = <<>>]_vars

(* C6: an undo (redo) the widget applies is signalled to the host as       *)
(* exactly one StateControlCommand.UNDO (REDO); an EDIT change and a       *)
(* content change with no operation send no state-control command.         *)
C6_OneCommandPerAppliedOperation ==
  /\ (last.op = "undo" /\ last.applied)
       => CommandsIn(out) = <<StateControl("UNDO")>>
  /\ (last.op = "redo" /\ last.applied)
       => CommandsIn(out) = <<StateControl("REDO")>>
  /\ last.op \in {"widgetEdit", "commit", "effect"} => CommandsIn(out) = <<>>

C6_Witness ==
  /\ impl = "Db" /\ last.op = "redo" /\ last.applied
  /\ out = <<StateControl("REDO")>>

(* C7: after an edit, undo() directly followed by redo() leaves the        *)
(* content as it was before the undo: what getContent returns, what the    *)
(* widget holds, and (Dashbuilder) what newContentRef tracks.              *)
C7_UndoRedoRestores ==
  snap.stage = "redone"
  => /\ GetContentResult(widget).value = snap.got
     /\ widget.content = snap.wc
     /\ impl = "Db" => newContentRef = snap.newRef

(* C8: getPreview() after content that failed to parse returns the         *)
(* placeholder value and does not throw.                                   *)
C8_PreviewPlaceholderOnUnparsable ==
  (impl = "Swf" /\ last.op = "getPreview" /\ widget.mounted
     /\ CurrentContent = "{bad" /\ ~Parses(CurrentContent) /\ diagramOutOfSync)
  => (last.outcome = "resolved" /\ last.value \in {"", PLACEHOLDER})

(* C9: setContent(path, content), for a path that mounts the widget and a  *)
(* non-empty content, is rejected exactly when the content cannot be       *)
(* parsed/accepted, and resolves otherwise.                                *)
C9_SetContentRejectsUnparsable ==
  (last.op = "setContent" /\ fresh.path # "" /\ fresh.content # "")
  => (last.outcome = "rejected" <=> ~Parses(fresh.content))

(* C10: getPreview, undo, redo, validate and setTheme complete without     *)
(* throwing or rejecting in every reachable state.                         *)
C10_OnlySetAndGetContentFail ==
  last.op \in {"getPreview", "undo", "redo", "validate", "setTheme"}
  => last.outcome \in {"resolved", "returned"}

(* C11: setTheme is idempotent.  When setTheme(t) is called right after    *)
(* setTheme(t), the second call leaves the adapter and the widget exactly  *)
(* as the first call left them, and neither call sends a host              *)
(* notification (no onNewEdit, no state-control command).                  *)
C11_SetThemeIdempotent ==
  [][(last.op = "setTheme" /\ last'.op = "setTheme"
        /\ last'.value = last.value)
       => /\ AdapterState' = AdapterState
          /\ out = <<>> /\ out' = <<>>]_vars

C11_Witness ==
  /\ last.op = "setTheme" /\ snap.stage = "repeated"
  /\ last.value = "DARK" /\ widget.mounted /\ widget.theme = "DARK"

(* C12: validate() returns the empty list of notifications, synchronously  *)
(* (a plain return, not a promise), in every state and for every content;  *)
(* it changes no adapter state and sends no host notification.             *)
C12_ValidateReturnsEmpty ==
  [][last'.op = "validate"
       => /\ last'.outcome = "returned" /\ last'.value = <<>>
          /\ AdapterState' = AdapterState
          /\ out' = <<>>]_vars

C12_Witness ==
  /\ last.op = "validate" /\ last.outcome = "returned" /\ last.value = <<>>
  /\ widget.mounted /\ widget.content = "{bad" /\ out = <<>>

(* C13: last write wins for setContent: once the most recent setContent    *)
(* call has been committed (also when it was issued before an earlier call *)
(* had been committed), the stored path and content are those of that call *)
(* and a widget that takes the content it is given shows that content;     *)
(* this stays so until the next call.                                      *)
C13_LastWriteWins ==
  fresh.stage = "committed"
  => /\ initialContent = [originalContent |-> fresh.content, path |-> fresh.path]
     /\ (last.op = "commit" /\ fresh.shown /\ fresh.path # "")
          => (widget.mounted /\ widget.content = fresh.content)

(* C14: malformed content is never a crash (ServerlessWorkflowEditor).     *)
(* onContentChanged returns normally for every content and operation; when *)
(* the content cannot be parsed, or cannot be rendered because there is no *)
(* preview element, diagramOutOfSync is true afterwards and the            *)
(* notification of the operation has been sent all the same.               *)
C14_MalformedContentNoCrash ==
  impl = "Swf" =>
    /\ last.op \in {"effect", "widgetEdit"} => last.outcome = "returned"
    /\ (last.op = "effect"
          /\ (~Parses(initialContent.originalContent) \/ svgContainer = NullRef))
       => diagramOutOfSync
    /\ (last.op = "widgetEdit"
          /\ (~Parses(widget.content) \/ svgContainer = NullRef))
       => (diagramOutOfSync /\ out = <<NewEdit(widget.content)>>)
    /\ (last.op \in {"undo", "redo"} /\ last.applied
          /\ (~Parses(widget.content) \/ svgContainer = NullRef))
       => /\ diagramOutOfSync
          /\ out = <<StateControl(IF last.op = "undo" THEN "UNDO" ELSE "REDO")>>

C14_Witness ==
  /\ impl = "Swf" /\ last.op = "widgetEdit" /\ last.outcome = "returned"
  /\ widget.content = "{bad" /\ diagramOutOfSync
  /\ out = <<NewEdit("{bad")>>

(* C15: every content-changing operation sends exactly one onNewEdit,      *)
(* and an undo or redo the widget applies sends, in addition,              *)
(* exactly one matching state-control command (so one of each).            *)
C15_EditAndCommandPerUndoRedo ==
  /\ last.op = "widgetEdit" => Len(NewEditsIn(out)) = 1
  /\ (last.op \in {"undo", "redo"} /\ last.applied)
       => /\ Len(NewEditsIn(out)) = 1
          /\ CommandsIn(out)
               = <<StateControl(IF last.op = "undo" THEN "UNDO" ELSE "REDO")>>

\* what the effect of onReady has told the host in o
ReadySignalsIn(o) == SelectSeq(o, LAMBDA n : n.kind # "onShowPreviewChange")

(* C17: ready signalling order.  The commit that mounts the component and  *)
(* every commit that applies a setContent leave the effect of onReady to   *)
(* run, and nothing but its run (or the end of the component) takes it     *)
(* away; each run of the effect calls props.onReady exactly once, first,   *)
(* and then makes the content-change pass for the stored content with no   *)
(* operation, which sends neither onNewEdit nor a state-control command;   *)
(* no other step calls onReady.                                            *)
C17_ReadyThenContentPass ==
  [][/\ (last'.op = "commit" /\ (~mounted \/ queue # <<>>))
          => ("ready" \in effects'
                /\ initialContent' = CommittedContent(queue, initialContent))
     /\ ("ready" \in effects /\ "ready" \notin effects')
          => last'.op = "effect"
     /\ (last'.op = "effect" /\ "ready" \in effects)
          => ReadySignalsIn(out')
               = <<Ready, ContentChangePass(initialContent.originalContent)>>
     /\ ~(last'.op = "effect" /\ "ready" \in effects)
          => ReadySignalsIn(out') = NewEditsIn(out') \o CommandsIn(out')
    ]_vars

\* every class the inputs mark non-portable: @NonPortable, or listed under
\* errai.marshalling.nonserializableTypes in one of the properties files
MarkedNonPortable(cp) ==
  cp.nonPortable
    \cup UNION {Range(PropertyTypes(CONFIG_ERRAI_NONSERIALIZABLE_TYPE)) :
                  f \in {g \in Range(cp.files) :
                           CONFIG_ERRAI_NONSERIALIZABLE_TYPE \in Range(g)}}

(* C18: in the EnviromentConfig that loadConfiguredPortableTypes builds no *)
(* class marked non-portable is among the exposed classes, whatever else   *)
(* made it a candidate, and the portable supertypes are collected from the *)
(* classes left after the removal only.                                    *)
C18_NonPortableNeverExposed ==
  environmentConfig.loaded
  => /\ environmentConfig.exposedClasses \cap MarkedNonPortable(classpath) = {}
     /\ environmentConfig.portableNonExposed
          = UNION {InterfacesAndSuperTypes(cls) :
                     cls \in environmentConfig.exposedClasses}

\* the editor method each canvas_* envelope method stands for
MatchingEditorMethod ==
  [canvas_getNodeIds |-> "getNodeIds",
   canvas_getBackgroundColor |-> "getBackgroundColor",
   canvas_setBackgroundColor |-> "setBackgroundColor",
   canvas_getBorderColor |-> "getBorderColor",
   canvas_setBorderColor |-> "setBorderColor",
   canvas_getLocation |-> "getLocation",
   canvas_getAbsoluteLocation |-> "getAbsoluteLocation",
   canvas_getDimensions |-> "getDimensions",
   canvas_applyState |-> "applyState",
   canvas_centerNode |-> "centerNode"]

(* C19: SWEditorEnvelopeApiImpl never calls into a missing editor.  With   *)
(* no editor, every canvas_* method rejects with "Editor not found." and   *)
(* calls nothing, and mySWEnvelopeMethod resolves with                     *)
(* "sw-specific--default"; with an editor, each method makes exactly one   *)
(* call, of the matching editor method with the same arguments.            *)
(* mySWEnvelopeMethod sends mySWChannelMethod exactly once either way.     *)
C19_NoCallIntoMissingEditor ==
  /\ envelopeLast.op \in DOMAIN MatchingEditorMethod
       => IF envelopeEditor = NoEditor
          THEN /\ envelopeLast.outcome = "rejected"
               /\ envelopeLast.value = EditorNotFound
               /\ editorCalls = <<>> /\ channelSent = <<>>
          ELSE /\ envelopeLast.outcome = "resolved"
               /\ editorCalls
                    = <<EditorCall(MatchingEditorMethod[envelopeLast.op],
                                   envelopeLast.args)>>
  /\ envelopeLast.op = "mySWEnvelopeMethod"
       => /\ channelSent = <<"mySWChannelMethod">>
          /\ envelopeLast.outcome = "resolved"
          /\ IF envelopeEditor = NoEditor
             THEN editorCalls = <<>> /\ envelopeLast.value = SW_SPECIFIC_DEFAULT
             ELSE editorCalls = <<EditorCall("mySWMethod", <<>>)>>

C19_Witness ==
  /\ envelopeEditor = NoEditor /\ envelopeLast.op = "canvas_setBorderColor"
  /\ envelopeLast.args = <<"node-2", "blue">>
  /\ envelopeLast.outcome = "rejected" /\ envelopeLast.value = EditorNotFound

(* C20: the environment flags are stable under concurrent first use.  A    *)
(* call of isJUnitTest, isDevMode or isProdMode that begins after some     *)
(* call of the same method has returned a value returns that value, also   *)
(* when threads with different call stacks made the first calls            *)
(* concurrently.                                                           *)
C20_FlagsStable ==
  \A t \in Threads :
    (threads[t].frames = <<>> /\ threads[t].result # Null)
    => threads[t].seen \subseteq {threads[t].result}

(* C21: getEnvironmentConfig loads the configuration at most once.  Across *)
(* every interleaving of concurrent callers loadConfiguredPortableTypes    *)
(* runs at most one time and every caller is handed the same               *)
(* EnviromentConfig instance.                                               *)
C21_LoadedAtMostOnce ==
  /\ loadRuns <= 1
  /\ Cardinality(received) <= 1

(* C22: the Dashbuilder preview eventually follows the editor.  When the   *)
(* widget has reported the content c it holds (newContentRef is c), then   *)
(* after finitely many timer ticks the content given to the preview is c,  *)
(* unless the widget comes to hold other content first; at most one        *)
(* polling timer is active at any time; and oldContentRef is only ever     *)
(* assigned the value of newContentRef (until the component is unmounted). *)
C22_PreviewFollowsEditor ==
  /\ \A c \in Contents :
       (widget.mounted /\ widget.content = c /\ newContentRef = c)
         ~> (content = c \/ ~widget.mounted \/ widget.content # c)
  /\ [](timers <= 1)
  /\ [][oldContentRef' # oldContentRef
          => (oldContentRef' = newContentRef \/ ~mounted')]_vars

=============================================================================
